---------------------------- MODULE Spec2Model ----------------------------
(***************************************************************************)
(* rawzeo: the serial frame decoder of src/main.rs (main's read loop and   *)
(* parse) and the DataType table of src/lib.rs.                            *)
(*                                                                         *)
(* Bytes are the integers 0..255.  The ring is a sequence of bytes, front  *)
(* first.  An Option<u8> is NoSeq or a byte.  A call of parse is computed  *)
(* by the operator Parse, statement by statement, and one iteration of     *)
(* main's loop (read, extend, parse, print) is one action.  SpecReconcile  *)
(* applies the timestamp reconciliation on its own, SpecParse follows one  *)
(* call of parse through its loops, SpecTables applies the four From<u8>   *)
(* conversions of src/lib.rs.                                              *)
(***************************************************************************)
EXTENDS Integers, Sequences, FiniteSets, TLC

(***************************************************************************)
(* Integer helpers of the widths the code uses.                            *)
(***************************************************************************)
\* A u32 is <<high half, low half>>, each a 16-bit number (TLC's integers
\* have 32 bits with a sign, so 0xFFFFFFFF is no integer of the model).
U16Max == 65535
U32(hi, lo) == <<hi, lo>>
U32Zero == U32(0, 0)
U32Max == U32(U16Max, U16Max)

\* v & 0xFF
LowByte(v) == v[2] % 256

Min(a, b) == IF a < b THEN a ELSE b

\* u16::from_le_bytes([lo, hi])
LE16(lo, hi) == lo + 256 * hi

\* u32::from_le_bytes([b0, b1, b2, b3])
LE32(b0, b1, b2, b3) == U32(LE16(b2, b3), LE16(b0, b1))

\* !x on a u16
Not16(x) == U16Max - x

\* u8::wrapping_add(1)
WrappingAdd1(b) == (b + 1) % 256

\* (mutant of SatSub1: the subtraction wraps)
WrappingSub1(v) ==
    IF v[2] > 0 THEN U32(v[1], v[2] - 1)
    ELSE IF v[1] > 0 THEN U32(v[1] - 1, U16Max)
    ELSE U32Max

\* u32::saturating_sub(1), u32::saturating_add(1)
SatSub1(v) ==
    IF v[2] > 0 THEN U32(v[1], v[2] - 1)
    ELSE IF v[1] > 0 THEN U32(v[1] - 1, U16Max)
    ELSE U32Zero
SatAdd1(v) ==
    IF v[2] < U16Max THEN U32(v[1], v[2] + 1)
    ELSE IF v[1] < U16Max THEN U32(v[1] + 1, 0)
    ELSE U32Max

RECURSIVE SumBytes(_)
\* datavec.iter().map(|b| *b as u32).sum::<u32>()
SumBytes(s) == IF s = <<>> THEN 0 ELSE Head(s) + SumBytes(Tail(s))

Drop(s, n) == SubSeq(s, n + 1, Len(s))
Take(s, n) == SubSeq(s, 1, n)

(***************************************************************************)
(* lib.rs: the DataType table.  A value is <<variant name, code>>.         *)
(***************************************************************************)
KnownDataTypes ==
    { <<0, "Event">>, <<2, "SliceEnd">>, <<3, "Version">>, <<128, "Waveform">>,
      <<131, "FrequencyBins">>, <<132, "Sqi">>, <<138, "ZeoTimestamp">>,
      <<151, "Impedance">>, <<156, "BadSignal">>, <<157, "SleepStage">> }

DataTypeFrom(b) ==
    IF \E k \in KnownDataTypes : k[1] = b
    THEN LET k == CHOOSE k \in KnownDataTypes : k[1] = b IN [name |-> k[2], code |-> b]
    ELSE [name |-> "Invalid", code |-> b]

\* DataType::Invalid(255), the initial value of parse's datatype
InvalidFF == [name |-> "Invalid", code |-> 255]

(***************************************************************************)
(* The ring: CircularBuffer<LEN, u8>.                                      *)
(***************************************************************************)
LEN == 512

\* ring.extend_from_slice: on overflow the oldest bytes are dropped
ExtendFromSlice(ring, bytes) ==
    LET all == ring \o bytes
    IN  IF Len(all) > LEN THEN Drop(all, Len(all) - LEN) ELSE all

\* (mutant of PushFront: the back element is dropped on every push)
PushFrontEvicts(ring, b) == <<b>> \o Take(ring, Len(ring) - 1)

\* ring.push_front: on a full ring the back element is dropped
PushFront(ring, b) ==
    IF Len(ring) >= LEN THEN <<b>> \o Take(ring, LEN - 1) ELSE <<b>> \o ring

(***************************************************************************)
(* parse.                                                                  *)
(***************************************************************************)
NoSeq == -1

MarkerA == 65
Marker4 == 52

\* while ring.len() > 15
RingMin == 15

\* (mutant of MinBehind: the "or 13?" the code's comment wonders about)
MinBehindOr13 == 14 - 1

\* if ring.len() < 14
MinBehind == 14

\* Result values
NoPacket == <<>>
OkSome(pkt) == [tag |-> "OkSome", val |-> pkt, err |-> ""]
OkNone == [tag |-> "OkNone", val |-> NoPacket, err |-> ""]
Err(msg) == [tag |-> "Err", val |-> NoPacket, err |-> msg]
Panicked == [tag |-> "Panic", val |-> NoPacket, err |-> ""]

ErrLength == "Invalid message length."
ErrChecksum == "Invalid checksum."
ErrDatatype == "Bad datatype: {{b:02X}}"

\* the tuple parse returns
Packet(zeo_time_full, tt_ss, zeo_version, datatype, datavec) ==
    <<zeo_time_full, tt_ss, zeo_version, datatype, datavec>>

RECURSIVE Scan(_, _, _)
\* the 'inner loop: slide the 2-byte window until it is "A4"; popping an empty
\* ring is the unwrap on None
Scan(start0, start1, ring) ==
    IF ring = <<>> THEN [found |-> FALSE, ring |-> ring]
    ELSE LET b == Head(ring)
         IN  IF start1 = MarkerA /\ b = Marker4
             THEN [found |-> TRUE, ring |-> Tail(ring)]
             ELSE Scan(start1, b, Tail(ring))

\* the 4-way reconciliation of the absolute time with the frame's low byte
Reconcile(zeo_time, tt_lb) ==
    IF LowByte(zeo_time) = tt_lb THEN zeo_time
    ELSE IF LowByte(SatSub1(zeo_time)) = tt_lb THEN SatSub1(zeo_time)
    ELSE IF LowByte(SatAdd1(zeo_time)) = tt_lb THEN SatAdd1(zeo_time)
    ELSE zeo_time

\* (mutant of First4: the fourth byte is always taken as 0)
First4Three(datavec) == LE32(datavec[1], datavec[2], datavec[3], 0)

\* u32::from_le_bytes of the first four bytes of datavec, the fourth unwrap_or(0)
First4(datavec) ==
    LE32(datavec[1], datavec[2], datavec[3],
         IF Len(datavec) >= 4 THEN datavec[4] ELSE 0)

\* (mutant of Tracked: the sequence state is not updated)
TrackedKept(prev, seqnum) == prev

\* *prev_seqnum = Some(seqnum): the sequence state once the header is parsed
Tracked(prev, seqnum) == seqnum

\* (mutant of Lengths: the inverse length read as one byte instead of two)
LengthsShortInv(r) ==
    [cksum |-> r[1], dl |-> LE16(r[2], r[3]), inv_dl |-> r[4],
     rest |-> Drop(r, 4)]

\* steps 2 and 3 of parse: the checksum byte and the two length fields are
\* popped from the ring r behind the marker
Lengths(r) ==
    [cksum |-> r[1], dl |-> LE16(r[2], r[3]), inv_dl |-> LE16(r[4], r[5]),
     rest |-> Drop(r, 5)]

\* what a call of parse leaves behind
Outcome(ret, exit, ring, prev, lost, iters) ==
    [ret |-> ret, exit |-> exit, ring |-> ring, prev_seqnum |-> prev,
     lost |-> lost, iters |-> iters]

\* the locals of parse at the top of the while loop
Locals0(prev, ring) ==
    [ring |-> ring, prev_seqnum |-> prev, tt_ss |-> 0, datatype |-> InvalidFF,
     datavec |-> <<>>, zeo_version |-> U32Zero, zeo_time_full |-> U32Zero,
     lost |-> <<>>,
     while_counter |-> 0]

RECURSIVE ParseLoop(_, _)
\* the while loop of parse from the locals s; checks = overflow checks compiled in
ParseLoop(s, checks) ==
    IF ~(Len(s.ring) > RingMin)
    THEN Outcome(OkSome(Packet(s.zeo_time_full, s.tt_ss, s.zeo_version,
                               s.datatype, s.datavec)),
                 "end", s.ring, s.prev_seqnum, s.lost, s.while_counter)
    ELSE
    LET sc == Scan(0, 0, s.ring) IN
    IF ~sc.found
    THEN Outcome(Panicked, "scan", sc.ring, s.prev_seqnum, s.lost, s.while_counter)
    ELSE IF Len(sc.ring) < MinBehind
    THEN Outcome(OkNone, "pushback",
                 PushFront(PushFront(sc.ring, Marker4), MarkerA),
                 s.prev_seqnum, s.lost, s.while_counter)
    ELSE
    LET h      == Lengths(sc.ring)
        cksum  == h.cksum
        dl     == h.dl
        inv_dl == h.inv_dl
        r      == h.rest
    IN
    IF dl # Not16(inv_dl)
    THEN Outcome(Err(ErrLength), "length", r, s.prev_seqnum, s.lost,
                 s.while_counter)
    ELSE
    LET tt_lb     == r[1]
        tt_ss     == LE16(r[2], r[3])
        seqnum    == r[4]
        hasprev   == s.prev_seqnum # NoSeq
        prev_seq1 == IF hasprev THEN WrappingAdd1(s.prev_seqnum) ELSE seqnum
        gap       == hasprev /\ prev_seq1 # seqnum
        lost      == IF gap THEN Append(s.lost, (seqnum - prev_seq1) % 256)
                     ELSE s.lost
        tracked   == Tracked(s.prev_seqnum, seqnum)
        dtype     == r[5]
        datatype  == DataTypeFrom(dtype)
        datalen   == (dl - 1) % (U16Max + 1)
        body      == Drop(r, 5)
        n         == Min(datalen, Len(body))
        datavec   == Take(body, n)
        ring2     == Drop(body, n)
    IN
    IF gap /\ seqnum < prev_seq1 /\ checks
    THEN Outcome(Panicked, "gap", Drop(r, 4), s.prev_seqnum, s.lost, s.while_counter)
    ELSE IF dl = 0 /\ checks
    THEN Outcome(Panicked, "datalen", body, tracked, lost, s.while_counter)
    ELSE IF (dtype + SumBytes(datavec)) % 256 # cksum
    THEN Outcome(Err(ErrChecksum), "checksum", ring2, tracked, lost, s.while_counter)
    ELSE IF datatype.name = "Invalid"
    THEN Outcome(Err(ErrDatatype), "datatype", ring2, tracked, lost, s.while_counter)
    ELSE IF datatype.name \in {"ZeoTimestamp", "Version"} /\ Len(datavec) < 3
    THEN Outcome(Panicked, "first4", ring2, tracked, lost, s.while_counter)
    ELSE
    LET strip == datatype.name \in {"ZeoTimestamp", "Version"}
        full  == IF datatype.name = "ZeoTimestamp"
                 THEN Reconcile(First4(datavec), tt_lb) ELSE s.zeo_time_full
        vers  == IF datatype.name = "Version"
                 THEN First4(datavec) ELSE s.zeo_version
    IN  ParseLoop([ring |-> ring2, prev_seqnum |-> tracked, tt_ss |-> tt_ss,
                   datatype |-> datatype,
                   datavec |-> IF strip THEN Drop(datavec, Min(4, Len(datavec)))
                               ELSE datavec,
                   zeo_version |-> vers, zeo_time_full |-> full, lost |-> lost,
                   while_counter |-> s.while_counter + 1], checks)

\* parse::<LEN>(&mut prev_seqnum, &mut ring)
Parse(prev, ring, checks) == ParseLoop(Locals0(prev, ring), checks)

(***************************************************************************)
(* The device: what the base station puts on the wire (the protocol        *)
(* comment above parse, `AncllLLTttsidddd`).  A segment is a frame         *)
(* description or a run of bytes that are not a frame; bad says which      *)
(* field of the frame is corrupted, if any.                                *)
(***************************************************************************)
MkFrame(id, data, seq, T, bad) ==
    [kind |-> "frame", id |-> id, data |-> data, seq |-> seq, T |-> T, bad |-> bad]

MkJunk(bytes) ==
    [kind |-> "junk", id |-> 0, data |-> bytes, seq |-> 0, T |-> 0, bad |-> "ok"]

\* c: the identifier byte plus the data bytes, mod 256
Checksum(id, data) == (id + SumBytes(data)) % 256

\* ll: the data block plus the identifier
DeclaredLen(f) == IF f.bad = "dl0" THEN 0 ELSE Len(f.data) + 1

\* one bit of a byte flipped (the top bit)
FlipBit(b) == (b + 128) % 256

FrameBytes(f) ==
    LET dl  == DeclaredLen(f)
        inv == IF f.bad = "len" THEN (Not16(dl) + 256) % (U16Max + 1) ELSE Not16(dl)
        ck  == IF f.bad = "cksum" THEN FlipBit(Checksum(f.id, f.data))
               ELSE Checksum(f.id, f.data)
    \* tt, the sub-second counter, is 6 in every frame of the model
    IN  <<MarkerA, Marker4, ck, dl % 256, dl \div 256, inv % 256, inv \div 256,
          f.T, 6, 0, f.seq, f.id>> \o f.data

SegBytes(g) == IF g.kind = "frame" THEN FrameBytes(g) ELSE g.data

RECURSIVE StreamBytes(_)
StreamBytes(segs) ==
    IF segs = <<>> THEN <<>> ELSE SegBytes(Head(segs)) \o StreamBytes(Tail(segs))

\* a frame a correct sender builds
ValidFrame(g) == g.kind = "frame" /\ g.bad = "ok"

(***************************************************************************)
(* The bounded inputs.                                                     *)
(***************************************************************************)
MaxSegs == 2

\* frames a correct sender builds: a short (3-byte) payload, the minimal
\* 16-byte frame, a payload holding the marker bytes, a time-sync frame, a
\* version frame, the time-sync frame of the comment in parse's payload loop
\* a time-sync frame with a 2-byte payload, a version frame with a 3-byte
\* payload and a 17-byte frame whose payload ends in a zero byte
GoodFrames ==
    { MkFrame(132, <<9, 0, 0>>, 5, 3, "ok"),
      MkFrame(132, <<3, 16, 0, 0>>, 6, 3, "ok"),
      MkFrame(132, <<65, 52, 1, 2, 3, 4>>, 8, 4, "ok"),
      MkFrame(138, <<3, 16, 0, 0>>, 5, 3, "ok"),
      MkFrame(3, <<3, 16, 0, 0>>, 6, 3, "ok"),
      MkFrame(138, <<31, 43, 179, 99>>, 132, 31, "ok"),
      MkFrame(138, <<31, 43>>, 6, 31, "ok"),
      MkFrame(3, <<3, 16, 1>>, 6, 3, "ok"),
      MkFrame(132, <<9, 0, 0, 0, 0>>, 7, 3, "ok") }

\* frames damaged on the way, a frame declaring length 0 and a frame of an
\* unknown type
BadFrames ==
    { MkFrame(132, <<3, 16, 0, 0>>, 6, 3, "cksum"),
      MkFrame(132, <<9, 0, 0>>, 6, 3, "cksum"),
      MkFrame(132, <<3, 16, 0, 0>>, 6, 3, "len"),
      MkFrame(132, <<65, 52, 1, 2, 3, 4>>, 8, 4, "len"),
      MkFrame(132, <<>>, 6, 3, "dl0"),
      MkFrame(85, <<3, 16, 0, 0>>, 6, 3, "ok") }

\* bytes that are no frame: line noise, 16 bytes without the marker, a frame
\* that lost its last byte, and noise followed by the first 13 bytes of a frame
Junk ==
    { MkJunk(<<0, 0>>),
      MkJunk(<<0, 65, 0, 52, 7, 7, 7, 7, 7, 7, 7, 7, 7, 7, 7, 65>>),
      MkJunk(Take(FrameBytes(MkFrame(132, <<65, 52, 1, 2, 3, 4>>, 8, 4, "ok")), 17)),
      MkJunk(<<0, 0, 0>> \o Take(FrameBytes(MkFrame(132, <<3, 16, 0, 0>>, 6, 3, "ok")), 13)) }

Segments == GoodFrames \cup BadFrames \cup Junk

RECURSIVE SegSeqs(_)
SegSeqs(n) ==
    IF n = 0 THEN { <<>> }
    ELSE LET shorter == SegSeqs(n - 1)
         IN  shorter \cup { Append(s, g) : s \in { t \in shorter : Len(t) = n - 1 },
                                           g \in Segments }

\* how many bytes one read may return: one byte, or all the device has sent
\* (a read of 0 bytes is left out)
ReadSizes(port) == { n \in {1, Len(port)} : 1 <= n /\ n <= Len(port) }

(***************************************************************************)
(* main: the state of the read loop.                                       *)
(***************************************************************************)
VARIABLES
    sent,          \* the segments the device sends in this run
    port,          \* the bytes of them the serial port has not handed over yet
    ring,          \* main's ring
    prev_seqnum,   \* main's prev_seqnum
    result,        \* main's result
    printed,       \* the packets main printed as PARSED
    call,          \* the last call of parse: its arguments and where it returned
    reads,         \* how many reads returned Ok(n)
    checks,        \* whether the build checks arithmetic overflow
    pc,            \* "running", or "aborted" after a panic
    probe,         \* a function of parse applied on its own: arguments, result
    run,           \* a call of parse followed loop step by loop step
    conv           \* a From<u8> of lib.rs applied on its own: table, byte, result

vars ==
    <<sent, port, ring, prev_seqnum, result, printed, call, reads, checks, pc,
      probe, run, conv>>

NoCall ==
    [ring |-> <<>>, prev_seqnum |-> NoSeq, exit |-> "none", lost |-> <<>>,
     iters |-> 0, n |-> 0]

\* no function is applied on its own in a run of main
NoProbe == [v |-> U32Zero, t |-> 0, out |-> U32Zero, done |-> FALSE]

\* no call of parse is followed step by step in a run of main
NoRun ==
    [at |-> "idle", exit |-> "none", ring0 |-> <<>>, ring |-> <<>>,
     prev |-> NoSeq, start |-> <<0, 0>>, top |-> 0, cksum |-> 0, dl |-> 0,
     datalen |-> 0, left |-> 0, ran |-> 0, datavec |-> <<>>, dtype |-> 255,
     iters |-> 0]

\* no conversion is applied on its own in a run of main
NoConv == [table |-> "none", b |-> 0, out |-> InvalidFF, done |-> FALSE]

Init ==
    /\ probe = NoProbe
    /\ run = NoRun
    /\ conv = NoConv
    /\ sent \in SegSeqs(MaxSegs)
    /\ port = StreamBytes(sent)
    /\ ring = <<>>
    /\ prev_seqnum = NoSeq
    /\ result = OkNone
    /\ printed = <<>>
    /\ call = NoCall
    /\ reads = 0
    /\ checks \in BOOLEAN
    /\ pc = "running"

\* port.read returned Ok(n): extend the ring, parse, print
Read(n) ==
    /\ pc = "running"
    /\ n \in ReadSizes(port)
    /\ LET r1 == ExtendFromSlice(ring, Take(port, n))
           o  == Parse(prev_seqnum, r1, checks)
       IN  /\ port' = Drop(port, n)
           /\ reads' = reads + 1
           /\ call' = [ring |-> r1, prev_seqnum |-> prev_seqnum, exit |-> o.exit,
                       lost |-> o.lost, iters |-> o.iters, n |-> n]
           /\ ring' = o.ring
           /\ prev_seqnum' = o.prev_seqnum
           /\ IF o.ret.tag = "Panic"
              THEN /\ pc' = "aborted"
                   /\ UNCHANGED <<result, printed>>
              ELSE /\ pc' = pc
                   /\ result' = o.ret
                   /\ printed' = IF n > 0 /\ o.ret.tag = "OkSome"
                                 THEN Append(printed, o.ret.val) ELSE printed
    /\ UNCHANGED <<sent, checks, probe, run, conv>>

\* port.read returned Err(TimedOut): nothing is received and nothing printed
ReadTimedOut ==
    /\ pc = "running"
    /\ UNCHANGED vars

\* port.read returned another error: it is printed to stderr
ReadError ==
    /\ pc = "running"
    /\ UNCHANGED vars

Next ==
    \/ \E n \in ReadSizes(port) : Read(n)
    \/ ReadTimedOut
    \/ ReadError

Spec == Init /\ [][Next]_vars

(***************************************************************************)
(* The reconciliation of parse's ZeoTimestamp branch on its own: applied   *)
(* to an absolute time zeo_time and a time-low byte tt_lb, main idle.      *)
(***************************************************************************)
\* absolute times: around 0, around a byte and a half-word boundary, the
\* values of the frames above, around 0xFFFFFFFF
TimeValues ==
    { U32Zero, U32(0, 1), U32(0, 255), U32(0, 256), U32(0, 4099),
      U32(0, U16Max), U32(1, 0), U32(25523, 11039),
      U32(U16Max, U16Max - 1), U32Max }

InitReconcile ==
    /\ sent = <<>>
    /\ port = <<>>
    /\ ring = <<>>
    /\ prev_seqnum = NoSeq
    /\ result = OkNone
    /\ printed = <<>>
    /\ call = NoCall
    /\ reads = 0
    /\ checks = FALSE
    /\ pc = "running"
    /\ run = NoRun
    /\ conv = NoConv
    /\ probe \in { [v |-> v, t |-> t, out |-> U32Zero, done |-> FALSE] :
                       v \in TimeValues, t \in 0..255 }

\* zeo_time_full = the branch of the if chain that applies
ApplyReconcile ==
    /\ ~probe.done
    /\ probe' = [probe EXCEPT !.out = Reconcile(probe.v, probe.t),
                              !.done = TRUE]
    /\ UNCHANGED <<sent, port, ring, prev_seqnum, result, printed, call, reads,
                   checks, pc, run, conv>>

NextReconcile == ApplyReconcile

SpecReconcile == InitReconcile /\ [][NextReconcile]_vars

(***************************************************************************)
(* One call of parse followed through its loops: a step is the test of the *)
(* while loop, one turn of the 'inner scan, the test behind the marker,    *)
(* the reading of the lengths, the reading of the rest of the header, one  *)
(* turn of the payload loop, or the verification behind it.  run.at is the *)
(* place in parse; "returned" and "aborted" end the call.                  *)
(***************************************************************************)
\* a ring filled to its capacity: zero bytes and the first 13 bytes of a frame
FullRing ==
    [i \in 1..(LEN - 13) |-> 0]
        \o Take(FrameBytes(MkFrame(132, <<3, 16, 0, 0>>, 6, 3, "ok")), 13)

\* the rings parse is called on
ParseRings == { StreamBytes(segs) : segs \in SegSeqs(MaxSegs) } \cup { FullRing }

\* (mutant of PopFront: the byte is read and left in the ring)
PopFrontKept(r) == r

\* ring.pop_front() on a ring that is not empty: what is left of the ring
PopFront(r) == Tail(r)

Enter(r) == [NoRun EXCEPT !.at = "top", !.ring0 = r, !.ring = r]

InitParse ==
    /\ sent = <<>>
    /\ port = <<>>
    /\ ring = <<>>
    /\ prev_seqnum = NoSeq
    /\ result = OkNone
    /\ printed = <<>>
    /\ call = NoCall
    /\ reads = 0
    /\ checks \in BOOLEAN
    /\ pc = "running"
    /\ probe = NoProbe
    /\ conv = NoConv
    /\ run \in { Enter(r) : r \in ParseRings }

Idle ==
    UNCHANGED <<sent, port, ring, prev_seqnum, result, printed, call, reads,
                checks, pc, probe, conv>>

\* while ring.len() > 15, and the return behind the loop
WhileTest ==
    /\ run.at = "top"
    /\ run' = IF Len(run.ring) > RingMin
              THEN [run EXCEPT !.at = "scan", !.start = <<0, 0>>,
                               !.top = Len(run.ring)]
              ELSE [run EXCEPT !.at = "returned", !.exit = "end"]
    /\ Idle

\* one turn of 'inner: swap, pop_front().unwrap(), compare with "A4"
ScanStep ==
    /\ run.at = "scan"
    /\ run' = IF run.ring = <<>>
              THEN [run EXCEPT !.at = "aborted", !.exit = "scan"]
              ELSE LET w == <<run.start[2], Head(run.ring)>>
                   IN  [run EXCEPT !.ring = PopFront(run.ring), !.start = w,
                                   !.at = IF w = <<MarkerA, Marker4>>
                                          THEN "found" ELSE "scan"]
    /\ Idle

\* if ring.len() < 14: push the marker back and return Ok(None)
EnoughBehind ==
    /\ run.at = "found"
    /\ run' = IF Len(run.ring) < MinBehind
              THEN [run EXCEPT !.at = "returned", !.exit = "pushback",
                       !.ring = PushFront(PushFront(run.ring, Marker4), MarkerA)]
              ELSE [run EXCEPT !.at = "lengths"]
    /\ Idle

\* cksum, dl, inv_dl and the test of the lengths
ReadLengths ==
    /\ run.at = "lengths"
    /\ LET h == Lengths(run.ring)
       IN  run' = IF h.dl # Not16(h.inv_dl)
                  THEN [run EXCEPT !.at = "returned", !.exit = "length",
                                   !.ring = h.rest]
                  ELSE [run EXCEPT !.at = "header", !.ring = h.rest,
                                   !.cksum = h.cksum, !.dl = h.dl]
    /\ Idle

\* tt_lb, tt_ss, seqnum and the gap report, dtype, datalen = dl - 1
ReadHeader ==
    /\ run.at = "header"
    /\ LET r         == run.ring
           seqnum    == r[4]
           hasprev   == run.prev # NoSeq
           prev_seq1 == IF hasprev THEN WrappingAdd1(run.prev) ELSE seqnum
           gap       == hasprev /\ prev_seq1 # seqnum
           datalen   == (run.dl - 1) % (U16Max + 1)
       IN  run' = IF gap /\ seqnum < prev_seq1 /\ checks
                  THEN [run EXCEPT !.at = "aborted", !.exit = "gap",
                                   !.ring = Drop(r, 4)]
                  ELSE IF run.dl = 0 /\ checks
                  THEN [run EXCEPT !.at = "aborted", !.exit = "datalen",
                                   !.ring = Drop(r, 5),
                                   !.prev = Tracked(run.prev, seqnum)]
                  ELSE [run EXCEPT !.at = "payload", !.ring = Drop(r, 5),
                                   !.prev = Tracked(run.prev, seqnum),
                                   !.dtype = r[5], !.datalen = datalen,
                                   !.left = datalen, !.ran = 0,
                                   !.datavec = <<>>]
    /\ Idle

\* one turn of for _ in 0..datalen that finds a byte in the ring
PayloadStep ==
    /\ run.at = "payload"
    /\ run.left > 0
    /\ run.ring # <<>>
    /\ run' = [run EXCEPT !.ring = PopFront(run.ring),
                          !.datavec = Append(run.datavec, Head(run.ring)),
                          !.left = run.left - 1, !.ran = run.ran + 1]
    /\ Idle

\* the turns of the payload loop left when the ring is empty: each prints
\* "not enough data" and changes nothing
PayloadDry ==
    /\ run.at = "payload"
    /\ run.left > 0
    /\ run.ring = <<>>
    /\ run' = [run EXCEPT !.left = 0, !.ran = run.ran + run.left]
    /\ Idle

\* behind the payload loop: checksum, data type, the value of a time-sync
\* or version frame, while_counter += 1
Verify ==
    /\ run.at = "payload"
    /\ run.left = 0
    /\ LET datatype == DataTypeFrom(run.dtype)
       IN  run' = IF (run.dtype + SumBytes(run.datavec)) % 256 # run.cksum
                  THEN [run EXCEPT !.at = "returned", !.exit = "checksum"]
                  ELSE IF datatype.name = "Invalid"
                  THEN [run EXCEPT !.at = "returned", !.exit = "datatype"]
                  ELSE IF datatype.name \in {"ZeoTimestamp", "Version"}
                          /\ Len(run.datavec) < 3
                  THEN [run EXCEPT !.at = "aborted", !.exit = "first4"]
                  ELSE [run EXCEPT !.at = "top", !.iters = run.iters + 1]
    /\ Idle

NextParse ==
    \/ WhileTest
    \/ ScanStep
    \/ EnoughBehind
    \/ ReadLengths
    \/ ReadHeader
    \/ PayloadStep
    \/ PayloadDry
    \/ Verify

\* parse is straight-line code: a step that can be taken is taken
SpecParse == InitParse /\ [][NextParse]_vars /\ WF_vars(NextParse)

(***************************************************************************)
(* lib.rs: the four type tables.  Each enum declares its variants with     *)
(* their codes, and each From<u8> matches on codes of its own.  A table is *)
(* a set of <<code, variant name>>; a value is [name, code], code being    *)
(* the byte converted.                                                     *)
(***************************************************************************)
\* enum DataType
DataTypeDeclared ==
    { <<0, "Event">>, <<2, "SliceEnd">>, <<3, "Version">>, <<128, "Waveform">>,
      <<131, "FrequencyBins">>, <<132, "Sqi">>, <<138, "ZeoTimestamp">>,
      <<151, "Impedance">>, <<156, "BadSignal">>, <<157, "SleepStage">> }

\* enum EventType
EventTypeDeclared ==
    { <<5, "NightStart">>, <<7, "SleepOnset">>, <<14, "HeadbandDocked">>,
      <<15, "HeadbandUnDocked">>, <<16, "AlarmOff">>, <<17, "AlarmSnooze">>,
      <<19, "AlarmPlay">>, <<21, "NightEnd">>, <<36, "NewHeadband">> }

\* the arms of the match in From<u8> for EventType: 0x8F => HeadbandUnDocked
EventTypeMatched ==
    { <<5, "NightStart">>, <<7, "SleepOnset">>, <<14, "HeadbandDocked">>,
      <<143, "HeadbandUnDocked">>, <<16, "AlarmOff">>, <<17, "AlarmSnooze">>,
      <<19, "AlarmPlay">>, <<21, "NightEnd">>, <<36, "NewHeadband">> }

\* enum FrequencyBins
FrequencyBinsDeclared ==
    { <<0, "Delta">>, <<1, "Theta">>, <<2, "Alpha">>, <<3, "BetaMid">>,
      <<4, "BetaHigh">>, <<5, "BetaLow">>, <<6, "Gamma">> }

\* the arms of the match in From<u8> for FrequencyBins
FrequencyBinsMatched ==
    { <<0, "Delta">>, <<1, "Theta">>, <<2, "Alpha">>, <<3, "BetaMid">>,
      <<4, "BetaHigh">>, <<5, "BetaLow">>, <<6, "Gamma">> }

\* enum SleepStages
SleepStagesDeclared ==
    { <<0, "Undefined">>, <<1, "Awake">>, <<2, "Rem">>, <<3, "Light">>,
      <<4, "Deep">> }

\* the arms of the match in From<u8> for SleepStages
SleepStagesMatched ==
    { <<0, "Undefined">>, <<1, "Awake">>, <<2, "Rem">>, <<3, "Light">>,
      <<4, "Deep">> }

\* match b { code => Variant, ..., _ => Invalid(b) }
MatchByte(arms, b) ==
    IF \E k \in arms : k[1] = b
    THEN LET k == CHOOSE k \in arms : k[1] = b IN [name |-> k[2], code |-> b]
    ELSE [name |-> "Invalid", code |-> b]

EventTypeFrom(b) == MatchByte(EventTypeMatched, b)
FrequencyBinsFrom(b) == MatchByte(FrequencyBinsMatched, b)
SleepStagesFrom(b) == MatchByte(SleepStagesMatched, b)

TableNames == {"DataType", "EventType", "FrequencyBins", "SleepStages"}

InitTables ==
    /\ sent = <<>>
    /\ port = <<>>
    /\ ring = <<>>
    /\ prev_seqnum = NoSeq
    /\ result = OkNone
    /\ printed = <<>>
    /\ call = NoCall
    /\ reads = 0
    /\ checks = FALSE
    /\ pc = "running"
    /\ probe = NoProbe
    /\ run = NoRun
    /\ conv \in { [table |-> n, b |-> b, out |-> InvalidFF, done |-> FALSE] :
                      n \in TableNames, b \in 0..255 }

\* main and parse are not running
IdleTables ==
    UNCHANGED <<sent, port, ring, prev_seqnum, result, printed, call, reads,
                checks, pc, probe, run>>

\* DataType::from(b)
ConvertDataType ==
    /\ conv.table = "DataType"
    /\ ~conv.done
    /\ conv' = [conv EXCEPT !.out = DataTypeFrom(conv.b), !.done = TRUE]
    /\ IdleTables

\* EventType::from(b)
ConvertEventType ==
    /\ conv.table = "EventType"
    /\ ~conv.done
    /\ conv' = [conv EXCEPT !.out = EventTypeFrom(conv.b), !.done = TRUE]
    /\ IdleTables

\* FrequencyBins::from(b)
ConvertFrequencyBins ==
    /\ conv.table = "FrequencyBins"
    /\ ~conv.done
    /\ conv' = [conv EXCEPT !.out = FrequencyBinsFrom(conv.b), !.done = TRUE]
    /\ IdleTables

\* SleepStages::from(b)
ConvertSleepStages ==
    /\ conv.table = "SleepStages"
    /\ ~conv.done
    /\ conv' = [conv EXCEPT !.out = SleepStagesFrom(conv.b), !.done = TRUE]
    /\ IdleTables

NextTables ==
    \/ ConvertDataType
    \/ ConvertEventType
    \/ ConvertFrequencyBins
    \/ ConvertSleepStages

SpecTables == InitTables /\ [][NextTables]_vars

(***************************************************************************)
(* Vocabulary of the properties.  call.ring is the reservoir as the last   *)
(* call of parse found it (after the append), ring the reservoir as the    *)
(* call left it, result what it returned.                                  *)
(***************************************************************************)
IsPrefix(p, s) == Len(p) <= Len(s) /\ Take(s, Len(p)) = p

\* a call of parse has been made and returned (it did not abort the program)
Called == call.n > 0
Returned == Called /\ pc = "running"

\* the three outcomes of a call
Decoded == Returned /\ result.tag = "OkSome"
AwaitingMoreData == Returned /\ result = OkNone
Rejected(msg) == Returned /\ result = Err(msg)

\* the reservoir r starts with the marker
MarkerAtFront(r) == Len(r) >= 2 /\ r[1] = MarkerA /\ r[2] = Marker4

\* no two adjacent bytes of r are the marker
NoMarker(r) == \A i \in 1..(Len(r) - 1) : ~(r[i] = MarkerA /\ r[i + 1] = Marker4)

\* the place of the first marker in r (the index of its 'A')
FirstMarker(r) ==
    CHOOSE i \in 1..(Len(r) - 1) :
        /\ r[i] = MarkerA /\ r[i + 1] = Marker4
        /\ \A j \in 1..(i - 1) : ~(r[j] = MarkerA /\ r[j + 1] = Marker4)

\* the length fields of the frame at the front of r (r holds at least 7 bytes)
FrontLen(r) == r[4] + 256 * r[5]
FrontInv(r) == r[6] + 256 * r[7]

\* the packets main printed that carry a known data type
RealPackets(ps) == SelectSeq(ps, LAMBDA k : k[4].name # "Invalid")

\* what main prints when the whole stream arrives in one read
WholePrinted ==
    LET o == Parse(NoSeq, StreamBytes(sent), checks)
    IN  IF o.ret.tag = "OkSome" THEN <<o.ret.val>> ELSE <<>>

AllValid(segs) == \A i \in 1..Len(segs) : ValidFrame(segs[i])

\* how many packets the last call handed to main
Handed == IF Decoded THEN 1 ELSE 0

(***************************************************************************)
(* C1.  A valid frame fully present at the front of the reservoir is       *)
(* decoded by one call of parse: the call returns a packet that carries    *)
(* the frame's identifier and payload, and the sequence state is the       *)
(* frame's sequence number.  The payload is compared as the packet exposes *)
(* it: for a time-sync or version frame, without the leading value bytes.  *)
(***************************************************************************)
ExposedPayload(f) ==
    IF f.id \in {138, 3} THEN Drop(f.data, Min(4, Len(f.data))) ELSE f.data

C1_ValidFrameDecoded ==
    \A f \in GoodFrames :
        (Called /\ IsPrefix(FrameBytes(f), call.ring))
            => /\ Decoded
               /\ result.val[4].code = f.id
               /\ result.val[5] = ExposedPayload(f)
               /\ prev_seqnum = f.seq

(***************************************************************************)
(* C2.  A stream of valid frames fed one byte per read yields the same     *)
(* decoded packets as the stream fed in one read.                          *)
(***************************************************************************)
C2_ByteWiseSameAsWhole ==
    (sent # <<>> /\ AllValid(sent) /\ port = <<>>
        /\ reads = Len(StreamBytes(sent)))
        => /\ pc = "running"
           /\ RealPackets(printed) = RealPackets(WholePrinted)

(***************************************************************************)
(* C3.  Every frame a call validates is handed to the consumer: the call   *)
(* hands over as many packets as it validated frames.                      *)
(***************************************************************************)
C3_EveryValidatedFrameDelivered ==
    (Called /\ call.iters >= 1) => Handed = call.iters

(***************************************************************************)
(* C4.  A frame at the front of the reservoir (at least the 16 bytes of    *)
(* the smallest frame) whose length differs from the complement of its     *)
(* inverse length is rejected with the length mismatch, and the reservoir  *)
(* is left holding exactly the bytes behind the inverse-length field.      *)
(***************************************************************************)
C4_Case ==
    /\ Called
    /\ Len(call.ring) >= 16
    /\ MarkerAtFront(call.ring)
    /\ FrontLen(call.ring) # 65535 - FrontInv(call.ring)

C5_BadChecksumRejected ==
    \A f \in BadFrames :
        (f.bad = "cksum" /\ Called /\ IsPrefix(FrameBytes(f), call.ring))
            => Rejected(ErrChecksum)

(***************************************************************************)
(* C6.  A reservoir of 16 or more bytes without the marker: the call ends  *)
(* with "awaiting more data" and does not abort.                           *)
(***************************************************************************)
C6_NoMarkerAwaits ==
    (Called /\ Len(call.ring) >= 16 /\ NoMarker(call.ring)) => AwaitingMoreData

(***************************************************************************)
(* C7.  When the marker is found with fewer than 14 bytes behind it, the   *)
(* call returns Ok(None) and leaves the marker followed by the bytes that  *)
(* were behind it.  First conjunct: the first marker of a reservoir of     *)
(* more than 15 bytes.  Second conjunct: a marker found in a later         *)
(* iteration of the loop.                                                  *)
(***************************************************************************)
C7_Case ==
    /\ Called
    /\ Len(call.ring) > 15
    /\ ~NoMarker(call.ring)
    /\ Len(call.ring) - (FirstMarker(call.ring) + 1) < 14

C7_MarkerPushedBack ==
    /\ C7_Case => /\ AwaitingMoreData
                  /\ ring = Drop(call.ring, FirstMarker(call.ring) - 1)
    /\ (Called /\ call.exit = "pushback")
           => /\ AwaitingMoreData
              /\ MarkerAtFront(ring)
              /\ Len(ring) < 16
              /\ ring = Drop(call.ring, Len(call.ring) - Len(ring))

C7_Witness ==
    /\ C7_Case
    /\ call.exit = "pushback"
    /\ FirstMarker(call.ring) > 1
    /\ Len(ring) > 2

(***************************************************************************)
(* C8.  When the reservoir runs out inside the payload of a frame with     *)
(* valid length fields, the call restores the reservoir and returns        *)
(* "awaiting more data".                                                   *)
(***************************************************************************)
C8_Case ==
    /\ Called
    /\ Len(call.ring) >= 16
    /\ MarkerAtFront(call.ring)
    /\ FrontLen(call.ring) = 65535 - FrontInv(call.ring)
    /\ FrontLen(call.ring) >= 1
    /\ Len(call.ring) < 12 + (FrontLen(call.ring) - 1)

C8_TruncatedPayloadAwaits ==
    C8_Case => /\ AwaitingMoreData
               /\ ring = call.ring

(***************************************************************************)
(* C9.  No call of parse aborts the program.                               *)
(***************************************************************************)
C9_NeverAborts == pc = "running"

(***************************************************************************)
(* C10.  A call with fewer than 16 bytes in the reservoir returns          *)
(* "awaiting more data", not a packet, and leaves the reservoir unchanged. *)
(***************************************************************************)
C10_ShortReservoirAwaits ==
    (Called /\ Len(call.ring) < 16)
        => /\ AwaitingMoreData
           /\ ring = call.ring

(***************************************************************************)
(* C11.  A frame whose header is parsed with sequence number s after a     *)
(* frame with sequence number p, s # (p + 1) mod 256, makes the tracker    *)
(* report (s - (p + 1)) mod 256 lost frames, and the report is not fatal:  *)
(* the call goes on, also when s is smaller than p + 1.                    *)
(***************************************************************************)
C11_Case ==
    /\ Called
    /\ Len(call.ring) >= 16
    /\ MarkerAtFront(call.ring)
    /\ FrontLen(call.ring) = 65535 - FrontInv(call.ring)
    /\ call.prev_seqnum # NoSeq
    /\ call.ring[11] # (call.prev_seqnum + 1) % 256

C11_GapReportedNotFatal ==
    C11_Case => /\ pc = "running"
                /\ Len(call.lost) >= 1
                /\ call.lost[1] = (call.ring[11] - (call.prev_seqnum + 1)) % 256

(***************************************************************************)
(* C12.  After the time-sync frame that carries 0x00001003, a following    *)
(* frame of another type is decoded with the full timestamp reconciled     *)
(* from that value and its own time-low byte: 0x00001003 for time-low      *)
(* 0x03, 0x00001004 for time-low 0x04, in the same call or in a later one. *)
(***************************************************************************)
C12_SyncFrame == MkFrame(138, <<3, 16, 0, 0>>, 5, 3, "ok")

C12_TimestampFollowsTimeLow ==
    \A f \in GoodFrames :
        (/\ f.id = 132
         /\ Len(f.data) >= 4
         /\ f.T \in {3, 4}
         /\ sent = <<C12_SyncFrame, f>>
         /\ Decoded
         /\ result.val[4].code = f.id
         /\ result.val[5] = f.data)
            => result.val[1] = <<0, 4096 + f.T>>

(***************************************************************************)
(* C13.  Once a version frame (a time-sync frame) has been decoded, a      *)
(* packet decoded afterwards from a frame of another type, in the same     *)
(* call or in a later one, reports that version (an absolute time within   *)
(* one second of the value the time-sync frame carried): the value is not  *)
(* reset to 0.                                                             *)
(***************************************************************************)
C13_VersionFrame == MkFrame(3, <<3, 16, 0, 0>>, 6, 3, "ok")

C13_VersionAndTimeKept ==
    \A f \in GoodFrames :
        (/\ f.id = 132
         /\ Len(f.data) >= 4
         /\ Decoded
         /\ result.val[4].code = f.id
         /\ result.val[5] = f.data)
            => /\ sent = <<C13_VersionFrame, f>> => result.val[3] = <<0, 4099>>
               /\ sent = <<C12_SyncFrame, f>>
                      => result.val[1] \in {<<0, 4098>>, <<0, 4099>>, <<0, 4100>>}

(***************************************************************************)
(* C14.  For a stream of valid frames of which a payload holds the marker  *)
(* bytes 0x41 0x34, however the stream is split into reads, the packets    *)
(* decoded are the frames of the stream, one packet per frame in order:    *)
(* no frame is started at the marker bytes of a payload.                   *)
(***************************************************************************)
C14_Case ==
    /\ sent # <<>>
    /\ AllValid(sent)
    /\ \E i \in 1..Len(sent) : ~NoMarker(sent[i].data)
    /\ port = <<>>

C14_PayloadMarkerIgnored ==
    C14_Case
        => /\ pc = "running"
           /\ Len(RealPackets(printed)) = Len(sent)
           /\ \A i \in 1..Len(sent) :
                  /\ RealPackets(printed)[i][4].code = sent[i].id
                  /\ RealPackets(printed)[i][5] = ExposedPayload(sent[i])

(***************************************************************************)
(* C15.  A rejection is scoped to one frame.  After a call returns a       *)
(* length, checksum or unknown-type rejection the reservoir still holds    *)
(* the bytes behind the consumed ones in order; and when a damaged frame   *)
(* has been rejected and a later call finds the next valid frame complete  *)
(* in the reservoir, that call decodes it.  The case is taken at its most  *)
(* favourable: the valid frame has at least 16 bytes and the build does    *)
(* not check arithmetic overflow.                                          *)
(***************************************************************************)
IsSuffix(s, r) == Len(s) <= Len(r) /\ Drop(r, Len(r) - Len(s)) = s

C15_Rejectable(b) == b.bad \in {"len", "cksum"} \/ (b.bad = "ok" /\ b.id = 85)

C15_Case(b, f) ==
    /\ C15_Rejectable(b)
    /\ Len(FrameBytes(f)) >= 16
    /\ ~checks
    /\ sent = <<b, f>>
    /\ Called
    /\ Len(call.ring) < Len(StreamBytes(sent))
    /\ IsSuffix(FrameBytes(f), call.ring)

C15_RejectionScopedToOneFrame ==
    /\ (Called /\ call.exit \in {"length", "checksum", "datatype"})
           => IsSuffix(ring, call.ring)
    /\ \A b \in BadFrames, f \in GoodFrames :
           C15_Case(b, f) => /\ Decoded
                             /\ result.val[4].code = f.id
                             /\ result.val[5] = ExposedPayload(f)

(***************************************************************************)
(* C16.  The sequence state after a call that returns is the sequence      *)
(* number of the last frame whose header the call parsed, also when that   *)
(* frame was then rejected for its checksum or its identifier; a call that *)
(* parsed no header (it ends at once with the length mismatch or the       *)
(* push-back, or does not enter the loop) leaves the state as it was.      *)
(* The frame spoken of is the one at the front of the reservoir.           *)
(***************************************************************************)
C16_HeaderAtFront ==
    /\ Returned
    /\ Len(call.ring) >= 16
    /\ MarkerAtFront(call.ring)
    /\ FrontLen(call.ring) = 65535 - FrontInv(call.ring)

C16_SeqStateFollowsParsedHeaders ==
    /\ (C16_HeaderAtFront /\ call.iters = 0) => prev_seqnum = call.ring[11]
    /\ (C16_HeaderAtFront /\ call.iters = 1
            /\ call.exit \in {"end", "pushback", "length"})
           => prev_seqnum = call.ring[11]
    /\ (Returned /\ call.iters = 0 /\ call.exit \in {"end", "pushback", "length"})
           => prev_seqnum = call.prev_seqnum

\* a frame is parsed, then the call ends with the push-back
C16_Witness ==
    /\ C16_HeaderAtFront
    /\ call.iters = 1
    /\ call.exit = "pushback"
    /\ prev_seqnum = call.ring[11]
    /\ prev_seqnum # call.prev_seqnum

\* a frame rejected for its checksum has set the state
C16_WitnessRejected ==
    /\ C16_HeaderAtFront
    /\ call.exit = "checksum"
    /\ prev_seqnum # call.prev_seqnum

\* C16 as the claim words it: every call that ends with the length mismatch
\* or the push-back, or does not enter the loop, leaves the state unchanged
C16_UnchangedByCallAsWorded ==
    (Returned /\ (call.exit \in {"pushback", "length"} \/ Len(call.ring) <= 15))
        => prev_seqnum = call.prev_seqnum

(***************************************************************************)
(* C17.  A frame with matching lengths and its payload complete, whose     *)
(* identifier is none of the ten known codes and whose checksum is right,  *)
(* is rejected as an unknown data type, the rejection carries the          *)
(* identifier code, and exactly the bytes of the frame are consumed.  The  *)
(* case is the first frame a run parses, so no sequence gap interferes.    *)
(***************************************************************************)
HexDigits ==
    <<"0", "1", "2", "3", "4", "5", "6", "7",
      "8", "9", "A", "B", "C", "D", "E", "F">>

\* a byte as {b:02X} formats it
Hex2(b) == HexDigits[(b \div 16) + 1] \o HexDigits[(b % 16) + 1]

\* the rejection that carries the identifier code b
UnknownDataType(b) == "Bad datatype: " \o Hex2(b)

C17_UnknownTypeRejectedWithCode ==
    \A f \in BadFrames :
        (/\ f.bad = "ok"
         /\ DataTypeFrom(f.id).name = "Invalid"
         /\ Called
         /\ call.prev_seqnum = NoSeq
         /\ IsPrefix(FrameBytes(f), call.ring))
            => /\ Rejected(UnknownDataType(f.id))
               /\ ring = Drop(call.ring, Len(FrameBytes(f)))

(***************************************************************************)
(* C18.  When the frame a call returns is a validated time-sync or version *)
(* frame, its 32-bit value is the little-endian number of the first four   *)
(* payload bytes, the fourth taken as 0 when the payload has three, and    *)
(* the packet's payload is the frame's payload without those bytes; the    *)
(* payload of a frame of any other type is returned unchanged.  The value  *)
(* of a version frame is the packet's version; the value of a time-sync    *)
(* frame is the packet's time when its low byte is the frame's time-low.   *)
(***************************************************************************)
C18_Value(d) ==
    <<d[3] + 256 * (IF Len(d) >= 4 THEN d[4] ELSE 0), d[1] + 256 * d[2]>>

C18_Returned(f) ==
    /\ Len(f.data) >= 3
    /\ Called
    /\ IsPrefix(FrameBytes(f), call.ring)
    /\ Decoded
    /\ call.iters = 1

C18_ValueAndPayload ==
    \A f \in GoodFrames :
        C18_Returned(f)
            => /\ result.val[4].code = f.id
               /\ f.id = 3 => /\ result.val[3] = C18_Value(f.data)
                              /\ result.val[5] = SubSeq(f.data, 5, Len(f.data))
               /\ f.id = 138 => /\ f.data[1] = f.T
                                      => result.val[1] = C18_Value(f.data)
                                /\ result.val[5] = SubSeq(f.data, 5, Len(f.data))
               /\ f.id \notin {3, 138} => result.val[5] = f.data

\* the version frame with a 3-byte payload: the fourth byte is taken as 0
C18_Witness ==
    /\ C18_Returned(MkFrame(3, <<3, 16, 1>>, 6, 3, "ok"))
    /\ result.val[3] = <<1, 4099>>
    /\ result.val[5] = <<>>

\* a time-sync frame with a 4-byte payload
C18_WitnessTimeSync ==
    /\ C18_Returned(MkFrame(138, <<31, 43, 179, 99>>, 132, 31, "ok"))
    /\ result.val[1] = <<25523, 11039>>
    /\ result.val[5] = <<>>

(***************************************************************************)
(* C19.  The reconstructed timestamp of a time-sync frame with absolute    *)
(* value v and time-low byte t is v when v mod 256 = t; otherwise v - 1    *)
(* when (v - 1) mod 256 = t; otherwise v + 1 when (v + 1) mod 256 = t;     *)
(* otherwise v, with v - 1 and v + 1 saturating at 0 and 0xFFFFFFFF.  So   *)
(* the result is within 1 of v, and its low byte is t when one of the      *)
(* first three cases applies.                                              *)
(***************************************************************************)
\* a - b, for a and b less than 65536 apart in the high half
C19_Minus(a, b) == (a[1] - b[1]) * 65536 + (a[2] - b[2])

C19_Close(a, b) == a[1] - b[1] \in {-1, 0, 1}

C19_Reconciled ==
    probe.done =>
        LET v     == probe.v
            t     == probe.t
            out   == probe.out
            low   == v[2] % 256
            \* the low bytes of v - 1 and v + 1, saturating
            below == IF v = <<0, 0>> THEN 0 ELSE (low - 1) % 256
            above == IF v = <<65535, 65535>> THEN 255 ELSE (low + 1) % 256
        IN  /\ C19_Close(out, v)
            /\ IF low = t THEN out = v
               ELSE IF below = t THEN C19_Minus(v, out) = 1
               ELSE IF above = t THEN C19_Minus(out, v) = 1
               ELSE out = v
            /\ C19_Minus(out, v) \in {-1, 0, 1}
            /\ (low = t \/ below = t \/ above = t) => out[2] % 256 = t

\* at v = 0 the subtraction saturates and the addition gives 1
C19_Witness ==
    /\ probe.done
    /\ probe.v = <<0, 0>>
    /\ probe.t = 1
    /\ probe.out = <<0, 1>>

\* the subtraction borrows from the high half
C19_WitnessBorrow ==
    /\ probe.done
    /\ probe.v = <<1, 0>>
    /\ probe.t = 255
    /\ probe.out = <<0, 65535>>

(***************************************************************************)
(* C20.  Every call of parse ends: it returns or aborts, it never waits.   *)
(* A turn of the while loop that does not end the call removes at least    *)
(* 12 bytes from the ring, a turn of the marker scan removes one byte, the *)
(* payload loop runs at most the declared length minus 1 times (as the     *)
(* code computes it, on 16 bits), and in every place of parse short of its *)
(* end a step can be taken whatever the ring holds.                        *)
(***************************************************************************)
ParseDone == run.at \in {"returned", "aborted"}

C20_Progress ==
    /\ (run.at = "top" /\ run.iters >= 1) => Len(run.ring) + 12 <= run.top
    /\ run.at = "payload" => run.ran + run.left = (run.dl - 1) % 65536
    /\ run.at \in {"top", "scan", "found", "lengths", "header", "payload"}
           => ENABLED NextParse

C20_ScanPopsOne ==
    [][(run.at = "scan" /\ run'.at \in {"scan", "found"})
           => Len(run'.ring) = Len(run.ring) - 1]_vars

C20_ParseTerminates ==
    /\ <>ParseDone
    /\ []C20_Progress
    /\ C20_ScanPopsOne

\* a call that went twice through the while loop and returned
C20_Witness ==
    /\ ParseDone
    /\ run.exit = "end"
    /\ run.iters = 2
    /\ Len(run.ring) + 24 <= Len(run.ring0)

\* the steps of a call leave what the operator Parse computes for it (on the
\* rings built from segments)
StepsAgreeWithParse ==
    (ParseDone /\ run.ring0 # FullRing) =>
        LET o == Parse(NoSeq, run.ring0, checks)
        IN  /\ o.exit = run.exit
            /\ o.ring = run.ring
            /\ o.prev_seqnum = run.prev
            /\ o.iters = run.iters

(***************************************************************************)
(* C21.  A frame that parse accepts and returns as a packet had its whole  *)
(* payload, declared length - 1 bytes, in the reservoir: a frame whose     *)
(* payload was cut short by the end of the reservoir is not accepted.  The *)
(* frame is the one at the front of the reservoir of the call.             *)
(***************************************************************************)
C21_Accepted ==
    /\ Decoded
    /\ call.iters = 1
    /\ MarkerAtFront(call.ring)
    /\ FrontLen(call.ring) = 65535 - FrontInv(call.ring)
    /\ FrontLen(call.ring) >= 1

C21_AcceptedFrameWasComplete ==
    C21_Accepted
        => /\ Len(call.ring) >= 11 + FrontLen(call.ring)
           /\ Len(call.ring) - Len(ring) = 11 + FrontLen(call.ring)

(***************************************************************************)
(* C22.  For each of the four type tables and every byte b, the conversion *)
(* from b gives the variant the enum declares with code b when there is    *)
(* one, and otherwise Invalid carrying b.                                  *)
(***************************************************************************)
DeclaredTable(n) ==
    CASE n = "DataType" -> DataTypeDeclared
      [] n = "EventType" -> EventTypeDeclared
      [] n = "FrequencyBins" -> FrequencyBinsDeclared
      [] n = "SleepStages" -> SleepStagesDeclared

C22_ConversionFollowsDeclaration ==
    conv.done =>
        LET decl == DeclaredTable(conv.table)
        IN  /\ conv.out.code = conv.b
            /\ \A d \in decl : d[1] = conv.b => conv.out.name = d[2]
            /\ (\A d \in decl : d[1] # conv.b) => conv.out.name = "Invalid"

(***************************************************************************)
(* C23.  The marker push-back never evicts a byte: the two push_front      *)
(* calls are made on a ring of at most LEN - 2 bytes, the ring never holds *)
(* more than LEN bytes, the ring after the push-back is the marker         *)
(* followed by exactly the bytes it held before, and every other step of   *)
(* parse leaves the ring no longer than it was.                            *)
(***************************************************************************)
C23_PushBackStep == run.at = "found" /\ run'.exit = "pushback"

C23_PushBackEvictsNothing ==
    /\ [](Len(run.ring) <= LEN)
    /\ [][C23_PushBackStep
             => /\ Len(run.ring) <= LEN - 2
                /\ run'.ring = <<MarkerA, Marker4>> \o run.ring]_vars
    /\ [][~C23_PushBackStep => Len(run'.ring) <= Len(run.ring)]_vars

\* the push-back at the end of a call that began on a full ring
C23_Witness ==
    /\ run.exit = "pushback"
    /\ Len(run.ring0) = LEN
    /\ Len(run.ring) = 13
    /\ MarkerAtFront(run.ring)

=============================================================================
